---- MODULE Spec2Model ----
(***************************************************************************)
(* Order placement and order administration of                             *)
(* server/controllers/orderController.js.                                  *)
(*                                                                         *)
(* The persistent store (products, orders, order_items, shipping_info,     *)
(* payments) is the only shared state.  Every handler is an async function *)
(* that awaits its database.query calls one after the other, outside any   *)
(* transaction: one action of the model is one statement executed by the   *)
(* store together with the synchronous JavaScript that follows it up to    *)
(* the next await.  Money is kept in hundredths of a currency unit.        *)
(***************************************************************************)
EXTENDS Integers, Sequences, FiniteSets

\* ------------------------------------------------------------- bounds ----
\* the largest quantity a cart line asks for
MaxQty == 1

\* ---------------------------------------------------------- universe ----
\* the placeNewOrder requests, numbered in order of arrival; the order a
\* request inserts gets the request's number as its id
Reqs == {1, 2}
\* rows of the products table at start; "PX" is an id with no row
Catalog == {"P1", "P2"}
ProductIds == Catalog \cup {"PX"}
Price == [P1 |-> 2500, P2 |-> 3000]
InitStock == [P1 |-> 1, P2 |-> 1]
Qtys == 1..MaxQty
CartLines == [product : ProductIds, quantity : Qtys]
\* orderedItems: a list of no, one or two lines
Carts == UNION {[1..n -> CartLines] : n \in {0, 1, 2}}
\* the carts of the requests that run beside the order administration
AdminCarts == {c \in Carts : Len(c) <= 1}
\* the seven shipping fields of a request body; a field the body does not
\* hold reads as NoField (undefined)
ShippingFields == {"full_name", "state", "city", "country", "address",
                   "pincode", "phone"}
NoField == "(undefined)"
FilledShipping == [f \in ShippingFields |-> "a"]
\* the bodies of concurrent requests: all fields given, or full_name left out
ShippingInputs == {FilledShipping,
                   [FilledShipping EXCEPT !["full_name"] = NoField]}
\* req.body.orderedItems: an array, the JSON text of an array, nothing, a
\* text that is no JSON, or the JSON text of an object
ArrayPayloads == [form : {"array"}, lines : Carts]
NoPayload == [form |-> "absent", lines |-> <<>>]
\* the bodies of a request studied alone: at most one shipping field differs
\* from the filled-in form (left out, empty, blank or another text), the
\* quantities may be zero or negative, and the payload has any form
ShippingVariants ==
  {FilledShipping} \cup
  {[FilledShipping EXCEPT ![f] = v] :
     f \in ShippingFields, v \in {NoField, "", " ", "b"}}
AnyQtys == -1..MaxQty
AnyCartLines == [product : ProductIds, quantity : AnyQtys]
AnyCarts == UNION {[1..n -> AnyCartLines] : n \in {0, 1, 2}}
Payloads ==
  [form : {"array", "json"}, lines : AnyCarts] \cup
  {NoPayload, [form |-> "unparseable", lines |-> <<>>],
   [form |-> "object", lines |-> <<>>]}
Statuses == {"Shipped"}
NoRow == [absent |-> TRUE]

VARIABLES
  stock,          \* products.stock, by product id
  orders,         \* orders table: order id -> row or NoRow
  order_items,    \* order_items table: set of rows
  shipping_info,  \* shipping_info table: set of rows
  payments,       \* payments table: set of rows
  pc,             \* placeNewOrder: the statement each request is waiting on
  body,           \* placeNewOrder: req.body of each request
  products,       \* placeNewOrder: rows returned by the product lookup
  total_price,    \* placeNewOrder: local total_price
  subtotal,       \* placeNewOrder: total_price before line 94 overwrites it
  shipping_price, \* placeNewOrder: local shipping_price
  values,         \* placeNewOrder: local values, one entry per pushed line
  placeholders,   \* placeNewOrder: local placeholders, as line indexes
  cursor,         \* placeNewOrder: position of the stock loop of line 142
  nextErrs,       \* placeNewOrder: errors passed to next(), in order
  responded,      \* placeNewOrder: res.status(200).json was called
  failedAt,       \* placeNewOrder: the statement whose query rejected
  upd,            \* updateOrderStatus: request in flight
  lastResponse    \* outcome of the latest fetch, update or delete request

reqVars == <<pc, body, products, total_price, subtotal, shipping_price,
             values, placeholders, cursor, nextErrs, responded, failedAt>>
storeVars == <<stock, orders, order_items, shipping_info, payments>>
vars == <<stock, orders, order_items, shipping_info, payments, pc, body,
          products, total_price, subtotal, shipping_price, values,
          placeholders, cursor, nextErrs, responded, failedAt, upd,
          lastResponse>>

\* ----------------------------------------------------------- helpers ----
ErrorHandler(kind, statusCode) == [kind |-> kind, statusCode |-> statusCode]

\* !x of a string or a missing field
Falsy(x) == x \in {NoField, ""}

\* lines 34..36 and the uses of items up to line 43: the list the handler
\* works on, or the error thrown on the way (JSON.parse of a text that is no
\* JSON; items.map of a parsed value that is no array)
ParseItems(payload) ==
  IF payload.form \in {"array", "json"}
  THEN [threw |-> "", items |-> payload.lines]
  ELSE IF payload.form = "absent" THEN [threw |-> "", items |-> <<>>]
  ELSE IF payload.form = "unparseable"
  THEN [threw |-> "SyntaxError", items |-> <<>>]
  ELSE [threw |-> "TypeError", items |-> <<>>]

\* SELECT id, price, stock, name FROM products WHERE id = ANY($1)
SelectProducts(ids) ==
  [p \in (ids \cap Catalog) |-> [price |-> Price[p], stock |-> stock[p]]]

\* Math.floor in the place of Math.round
MathRound_Floor(x10000) == x10000 \div 10000

\* Math.round: the nearest integer, a tie going up.  The argument is given
\* in ten-thousandths of a unit (a price in hundredths times a rate in
\* hundredths).
MathRound(x10000) == (x10000 + 5000) \div 10000

\* the body of the forEach callback of lines 53..89, folded over the cart
RECURSIVE forEachItem(_, _, _, _)
forEachItem(items, prods, index, acc) ==
  IF index > Len(items) THEN acc
  ELSE LET item == items[index] IN
    IF item.product \notin DOMAIN prods
    THEN forEachItem(items, prods, index + 1,
           [acc EXCEPT !.errs = Append(@, ErrorHandler("NotFound", 404))])
    ELSE IF item.quantity > prods[item.product].stock
    THEN forEachItem(items, prods, index + 1,
           [acc EXCEPT !.errs = Append(@, ErrorHandler("Stock", 400))])
    ELSE forEachItem(items, prods, index + 1,
           [acc EXCEPT
              !.total = @ + prods[item.product].price * item.quantity,
              !.values = Append(@, [product_id |-> item.product,
                                    quantity |-> item.quantity,
                                    price |-> prods[item.product].price]),
              !.placeholders = Append(@, index - 1)])

\* const shipping_price = total_price >= 50 ? 0 : 2
ShippingPrice(sub) == IF sub >= 5000 THEN 0 ELSE 2

\* Math.round(total_price + total_price * tax_price + shipping_price)
GrandTotal(sub) == MathRound(100 * sub + 18 * sub + 10000 * ShippingPrice(sub))

\* ------------------------------------------------------------- store ----
OrderIds == Reqs
NoResponse == [op |-> "none"]
NoUpdate == [orderId |-> 0]
Null == "null"
\* json_build_object over the columns of a shipping_info row that the LEFT
\* JOIN did not find
NullShipping == [f \in ShippingFields |-> Null]
\* the value of rows[0] when a result has no row
Undefined == [undefined |-> TRUE]

ItemsOf(orderId) == {oi \in order_items : oi.order_id = orderId}
ShippingOf(orderId) == {s \in shipping_info : s.order_id = orderId}
PaymentsOf(orderId) == {p \in payments : p.order_id = orderId}

\* the SELECT shared by the three fetch handlers: orders LEFT JOIN order_items
\* LEFT JOIN shipping_info, GROUP BY o.id, s.id
JoinedRows(ids) ==
  UNION {
    LET items == {[product_id |-> oi.product_id, quantity |-> oi.quantity,
                   price |-> oi.price, line |-> oi.line] : oi \in ItemsOf(o)}
    IN IF ShippingOf(o) = {}
       THEN {[id |-> o, order_status |-> orders[o].order_status,
              order_items |-> items, shipping_info |-> NullShipping]}
       ELSE {[id |-> o, order_status |-> orders[o].order_status,
              order_items |-> items, shipping_info |-> s.fields]
               : s \in ShippingOf(o)}
    : o \in {x \in ids : orders[x] # NoRow}}

\* the order_items INSERT of lines 115..121 is a well-formed statement only if
\* its placeholders name exactly the parameters $1..$n that values supplies
ItemsStatementOk(ph, vals) ==
  /\ Len(vals) > 0
  /\ Len(ph) = Len(vals)
  /\ \A k \in 1..Len(ph) : ph[k] = k - 1

\* -------------------------------------------------------------- Init ----
Init ==
  /\ stock = InitStock
  /\ orders = [o \in OrderIds |-> NoRow]
  /\ order_items = {}
  /\ shipping_info = {}
  /\ payments = {}
  /\ pc = [r \in Reqs |-> "idle"]
  /\ body = [r \in Reqs |-> [shipping |-> FilledShipping,
                              orderedItems |-> NoPayload]]
  /\ products = [r \in Reqs |-> <<>>]
  /\ total_price = [r \in Reqs |-> 0]
  /\ subtotal = [r \in Reqs |-> 0]
  /\ shipping_price = [r \in Reqs |-> 0]
  /\ values = [r \in Reqs |-> <<>>]
  /\ placeholders = [r \in Reqs |-> <<>>]
  /\ cursor = [r \in Reqs |-> 0]
  /\ nextErrs = [r \in Reqs |-> <<>>]
  /\ responded = [r \in Reqs |-> FALSE]
  /\ failedAt = [r \in Reqs |-> "none"]
  /\ upd = NoUpdate
  /\ lastResponse = NoResponse

\* ----------------------------------------------------- placeNewOrder ----
\* lines 6..47: the request arrives, shipping and cart are validated and the
\* product lookup is issued
placeNewOrder_Validate(r, b) ==
  /\ pc[r] = "idle"
  /\ \A q \in Reqs : q < r => pc[q] # "idle"
  /\ body' = [body EXCEPT ![r] = b]
  /\ IF \E f \in ShippingFields : Falsy(b.shipping[f])
     THEN /\ nextErrs' = [nextErrs EXCEPT ![r] = <<ErrorHandler("Validation", 400)>>]
          /\ pc' = [pc EXCEPT ![r] = "done"]
     ELSE IF ParseItems(b.orderedItems).threw # ""
     THEN /\ nextErrs' = [nextErrs EXCEPT ![r] =
                 <<ErrorHandler(ParseItems(b.orderedItems).threw, 500)>>]
          /\ pc' = [pc EXCEPT ![r] = "done"]
     ELSE IF Len(ParseItems(b.orderedItems).items) = 0
     THEN /\ nextErrs' = [nextErrs EXCEPT ![r] = <<ErrorHandler("Validation", 400)>>]
          /\ pc' = [pc EXCEPT ![r] = "done"]
     ELSE /\ nextErrs' = nextErrs
          /\ pc' = [pc EXCEPT ![r] = "selectProducts"]
  /\ lastResponse' = NoResponse
  /\ UNCHANGED <<products, total_price, subtotal, shipping_price, values,
                 placeholders, cursor, responded, failedAt, upd>>
  /\ UNCHANGED storeVars

\* lines 43..104: the lookup returns, the forEach and the pricing run, and the
\* orders INSERT is issued
placeNewOrder_SelectProducts(r) ==
  /\ pc[r] = "selectProducts"
  /\ LET items == ParseItems(body[r].orderedItems).items
         rows == SelectProducts({items[k].product : k \in 1..Len(items)})
         acc == forEachItem(items, rows, 1,
                  [total |-> 0, values |-> <<>>, placeholders |-> <<>>,
                   errs |-> <<>>])
     IN /\ products' = [products EXCEPT ![r] = rows]
        /\ subtotal' = [subtotal EXCEPT ![r] = acc.total]
        /\ values' = [values EXCEPT ![r] = acc.values]
        /\ placeholders' = [placeholders EXCEPT ![r] = acc.placeholders]
        /\ nextErrs' = [nextErrs EXCEPT ![r] = acc.errs]
        /\ shipping_price' = [shipping_price EXCEPT ![r] = ShippingPrice(acc.total)]
        /\ total_price' = [total_price EXCEPT ![r] = GrandTotal(acc.total)]
  /\ pc' = [pc EXCEPT ![r] = "insertOrder"]
  /\ lastResponse' = NoResponse
  /\ UNCHANGED <<body, cursor, responded, failedAt, upd>>
  /\ UNCHANGED storeVars

\* the handler going on to the order_items INSERT with no orders row inserted
placeNewOrder_InsertOrder_NoRow(r) ==
  /\ pc[r] = "insertOrder"
  /\ pc' = [pc EXCEPT ![r] = "insertItems"]
  /\ lastResponse' = NoResponse
  /\ UNCHANGED storeVars
  /\ UNCHANGED <<body, products, total_price, subtotal, shipping_price, values,
                 placeholders, cursor, nextErrs, responded, failedAt, upd>>

\* lines 99..121: the orders row is inserted and the order_items INSERT issued
placeNewOrder_InsertOrder(r) ==
  /\ pc[r] = "insertOrder"
  /\ orders' = [orders EXCEPT ![r] =
       [id |-> r, total_price |-> total_price[r], tax_price |-> 18,
        shipping_price |-> shipping_price[r], order_status |-> "Processing",
        paid_at |-> "now"]]
  /\ pc' = [pc EXCEPT ![r] = "insertItems"]
  /\ lastResponse' = NoResponse
  /\ UNCHANGED <<stock, order_items, shipping_info, payments>>
  /\ UNCHANGED <<body, products, total_price, subtotal, shipping_price, values,
                 placeholders, cursor, nextErrs, responded, failedAt, upd>>

\* lines 115..130: the order_items rows are inserted (or the statement is
\* rejected and catchAsyncErrors passes the error on) and the shipping_info
\* INSERT issued
placeNewOrder_InsertItems(r) ==
  /\ pc[r] = "insertItems"
  /\ IF ItemsStatementOk(placeholders[r], values[r])
     THEN /\ order_items' = order_items \cup
               {[order_id |-> r, line |-> k,
                 product_id |-> values[r][k].product_id,
                 quantity |-> values[r][k].quantity,
                 price |-> values[r][k].price] : k \in 1..Len(values[r])}
          /\ pc' = [pc EXCEPT ![r] = "insertShipping"]
          /\ UNCHANGED <<nextErrs, failedAt>>
     ELSE /\ order_items' = order_items
          /\ pc' = [pc EXCEPT ![r] = "done"]
          /\ nextErrs' = [nextErrs EXCEPT ![r] = Append(@, ErrorHandler("Syntax", 500))]
          /\ failedAt' = [failedAt EXCEPT ![r] = "insertItems"]
  /\ lastResponse' = NoResponse
  /\ UNCHANGED <<stock, orders, shipping_info, payments>>
  /\ UNCHANGED <<body, products, total_price, subtotal, shipping_price, values,
                 placeholders, cursor, responded, upd>>

\* the shipping_info INSERT with state and city in each other's place
placeNewOrder_InsertShipping_Swapped(r) ==
  /\ pc[r] = "insertShipping"
  /\ shipping_info' = shipping_info \cup
       {[order_id |-> r, n |-> 1,
         fields |-> [body[r].shipping EXCEPT
                       !["state"] = body[r].shipping["city"],
                       !["city"] = body[r].shipping["state"]]]}
  /\ pc' = [pc EXCEPT ![r] = "insertPayment"]
  /\ lastResponse' = NoResponse
  /\ UNCHANGED <<stock, orders, order_items, payments>>
  /\ UNCHANGED <<body, products, total_price, subtotal, shipping_price, values,
                 placeholders, cursor, nextErrs, responded, failedAt, upd>>

\* lines 124..139: the shipping_info row is inserted, the payments INSERT issued
placeNewOrder_InsertShipping(r) ==
  /\ pc[r] = "insertShipping"
  /\ shipping_info' = shipping_info \cup
       {[order_id |-> r, n |-> 1, fields |-> body[r].shipping]}
  /\ pc' = [pc EXCEPT ![r] = "insertPayment"]
  /\ lastResponse' = NoResponse
  /\ UNCHANGED <<stock, orders, order_items, payments>>
  /\ UNCHANGED <<body, products, total_price, subtotal, shipping_price, values,
                 placeholders, cursor, nextErrs, responded, failedAt, upd>>

\* the payments INSERT of a handler that passes no order id
placeNewOrder_InsertPayment_NoOrderId(r) ==
  /\ pc[r] = "insertPayment"
  /\ payments' = payments \cup
       {[order_id |-> 0, n |-> r, payment_type |-> "Online",
         payment_status |-> "Paid"]}
  /\ pc' = [pc EXCEPT ![r] = "updateStock"]
  /\ cursor' = [cursor EXCEPT ![r] = 1]
  /\ lastResponse' = NoResponse
  /\ UNCHANGED <<stock, orders, order_items, shipping_info>>
  /\ UNCHANGED <<body, products, total_price, subtotal, shipping_price, values,
                 placeholders, nextErrs, responded, failedAt, upd>>

\* lines 133..146: the payments row is inserted and the stock loop entered
placeNewOrder_InsertPayment(r) ==
  /\ pc[r] = "insertPayment"
  /\ payments' = payments \cup
       {[order_id |-> r, n |-> 1, payment_type |-> "Online",
         payment_status |-> "Paid"]}
  /\ pc' = [pc EXCEPT ![r] = "updateStock"]
  /\ cursor' = [cursor EXCEPT ![r] = 1]
  /\ lastResponse' = NoResponse
  /\ UNCHANGED <<stock, orders, order_items, shipping_info>>
  /\ UNCHANGED <<body, products, total_price, subtotal, shipping_price, values,
                 placeholders, nextErrs, responded, failedAt, upd>>

\* UPDATE products SET stock = stock - $1 WHERE id = $2
UpdateStock(st, quantity, id) ==
  IF id \in DOMAIN st THEN [st EXCEPT ![id] = @ - quantity] ELSE st

\* lines 142..154: one UPDATE of the stock loop; after the last one the
\* handler calls res.status(200).json
placeNewOrder_UpdateStock(r) ==
  /\ pc[r] = "updateStock"
  /\ LET item == ParseItems(body[r].orderedItems).items[cursor[r]]
     IN stock' = UpdateStock(stock, item.quantity, item.product)
  /\ IF cursor[r] = Len(ParseItems(body[r].orderedItems).items)
     THEN /\ responded' = [responded EXCEPT ![r] = TRUE]
          /\ pc' = [pc EXCEPT ![r] = "done"]
     ELSE /\ responded' = responded
          /\ pc' = pc
  /\ cursor' = [cursor EXCEPT ![r] = @ + 1]
  /\ lastResponse' = NoResponse
  /\ UNCHANGED <<orders, order_items, shipping_info, payments>>
  /\ UNCHANGED <<body, products, total_price, subtotal, shipping_price, values,
                 placeholders, nextErrs, failedAt, upd>>

\* any awaited database.query may reject (connection lost, statement refused):
\* the handler stops there and catchAsyncErrors passes the error to next()
placeNewOrder_QueryRejects(r) ==
  /\ pc[r] \in {"selectProducts", "insertOrder", "insertItems",
                "insertShipping", "insertPayment", "updateStock"}
  /\ failedAt' = [failedAt EXCEPT ![r] = pc[r]]
  /\ nextErrs' = [nextErrs EXCEPT ![r] = Append(@, ErrorHandler("Store", 500))]
  /\ pc' = [pc EXCEPT ![r] = "done"]
  /\ lastResponse' = NoResponse
  /\ UNCHANGED storeVars
  /\ UNCHANGED <<body, products, total_price, subtotal, shipping_price, values,
                 placeholders, cursor, responded, upd>>

\* ------------------------------------------------------- the fetches ----
\* result.rows[0] of a query result: undefined when there is no row
FirstRow(rows) == IF rows = {} THEN Undefined ELSE CHOOSE x \in rows : TRUE

\* lines 158..198
fetchSingleOrder(orderId) ==
  /\ lastResponse' = [op |-> "fetchSingleOrder", orderId |-> orderId,
                      statusCode |-> 200,
                      orders |-> FirstRow(JoinedRows({orderId}))]
  /\ UNCHANGED storeVars
  /\ UNCHANGED <<reqVars, upd>>

\* lines 201..240, for the one buyer of the model: every order is this buyer's
fetchMyOrders ==
  /\ lastResponse' = [op |-> "fetchMyOrders", statusCode |-> 200,
                      myOrders |-> JoinedRows({o \in OrderIds :
                                      /\ orders[o] # NoRow
                                      /\ orders[o].paid_at # Null})]
  /\ UNCHANGED storeVars
  /\ UNCHANGED <<reqVars, upd>>

\* lines 243..278
fetchAllOrders ==
  /\ lastResponse' = [op |-> "fetchAllOrders", statusCode |-> 200,
                      orders |-> JoinedRows({o \in OrderIds :
                                    /\ orders[o] # NoRow
                                    /\ orders[o].paid_at # Null})]
  /\ UNCHANGED storeVars
  /\ UNCHANGED <<reqVars, upd>>

\* ------------------------------------------------- updateOrderStatus ----
\* lines 281..294: the status check and the SELECT
updateOrderStatus_Select(orderId, status) ==
  /\ upd = NoUpdate
  /\ IF status = ""
     THEN /\ lastResponse' = [op |-> "updateOrderStatus", orderId |-> orderId,
                              statusCode |-> 400]
          /\ upd' = upd
     ELSE IF orders[orderId] = NoRow
     THEN /\ lastResponse' = [op |-> "updateOrderStatus", orderId |-> orderId,
                              statusCode |-> 404]
          /\ upd' = upd
     ELSE /\ lastResponse' = NoResponse
          /\ upd' = [orderId |-> orderId, status |-> status]
  /\ UNCHANGED storeVars
  /\ UNCHANGED reqVars

\* the UPDATE with no WHERE clause: every order gets the status
updateOrderStatus_Update_NoWhere ==
  /\ upd # NoUpdate
  /\ orders' = [o \in OrderIds |->
                  IF orders[o] = NoRow THEN NoRow
                  ELSE [orders[o] EXCEPT !.order_status = upd.status]]
  /\ lastResponse' = [op |-> "updateOrderStatus", orderId |-> upd.orderId,
                      statusCode |-> 200,
                      updatedOrder |-> IF orders[upd.orderId] = NoRow
                                       THEN Undefined
                                       ELSE orders'[upd.orderId]]
  /\ upd' = NoUpdate
  /\ UNCHANGED <<stock, order_items, shipping_info, payments>>
  /\ UNCHANGED reqVars

\* lines 296..305: the UPDATE ... RETURNING * and the response
updateOrderStatus_Update ==
  /\ upd # NoUpdate
  /\ orders' = IF orders[upd.orderId] = NoRow THEN orders
               ELSE [orders EXCEPT ![upd.orderId].order_status = upd.status]
  /\ lastResponse' = [op |-> "updateOrderStatus", orderId |-> upd.orderId,
                      statusCode |-> 200,
                      updatedOrder |-> IF orders[upd.orderId] = NoRow
                                       THEN Undefined
                                       ELSE orders'[upd.orderId]]
  /\ upd' = NoUpdate
  /\ UNCHANGED <<stock, order_items, shipping_info, payments>>
  /\ UNCHANGED reqVars

\* ------------------------------------------------------- deleteOrder ----
\* lines 309..324: DELETE FROM orders WHERE id = $1 RETURNING *
deleteOrder(orderId) ==
  /\ IF orders[orderId] = NoRow
     THEN /\ lastResponse' = [op |-> "deleteOrder", orderId |-> orderId,
                              statusCode |-> 404]
          /\ orders' = orders
     ELSE /\ lastResponse' = [op |-> "deleteOrder", orderId |-> orderId,
                              statusCode |-> 200, order |-> orders[orderId]]
          /\ orders' = [orders EXCEPT ![orderId] = NoRow]
  /\ UNCHANGED <<stock, order_items, shipping_info, payments>>
  /\ UNCHANGED <<reqVars, upd>>

\* ------------------------------------------------------------- Next ----
Bodies == [shipping : ShippingInputs, orderedItems : ArrayPayloads]
AdminBodies == {b \in Bodies : b.orderedItems.lines \in AdminCarts}

\* the steps of a placement after its arrival
placeNewOrder_Step(r) ==
  \/ placeNewOrder_SelectProducts(r)
  \/ placeNewOrder_InsertOrder(r)
  \/ placeNewOrder_InsertItems(r)
  \/ placeNewOrder_InsertShipping(r)
  \/ placeNewOrder_InsertPayment(r)
  \/ placeNewOrder_UpdateStock(r)
  \/ placeNewOrder_QueryRejects(r)

\* buyers: concurrent placements of carts of up to two lines, and the fetches
Next ==
  \/ \E r \in Reqs, b \in Bodies : placeNewOrder_Validate(r, b)
  \/ \E r \in Reqs : placeNewOrder_Step(r)
  \/ \E o \in OrderIds : fetchSingleOrder(o)
  \/ fetchMyOrders
  \/ fetchAllOrders

Spec == Init /\ [][Next]_vars

\* buyers and administrator: every handler of the controller, the placements
\* with carts of one line
NextAdmin ==
  \/ \E r \in Reqs, b \in AdminBodies : placeNewOrder_Validate(r, b)
  \/ \E r \in Reqs : placeNewOrder_Step(r)
  \/ \E o \in OrderIds : fetchSingleOrder(o)
  \/ fetchMyOrders
  \/ fetchAllOrders
  \/ \E o \in OrderIds, s \in Statuses \cup {""} : updateOrderStatus_Select(o, s)
  \/ updateOrderStatus_Update
  \/ \E o \in OrderIds : deleteOrder(o)

SpecAdmin == Init /\ [][NextAdmin]_vars

\* one buyer alone: a single placement with any body, and the fetches
SingleBodies == [shipping : ShippingVariants, orderedItems : Payloads]

NextSingle ==
  \/ /\ pc[1] = "idle"
     /\ \E b \in SingleBodies : placeNewOrder_Validate(1, b)
  \/ placeNewOrder_Step(1)
  \/ \E o \in OrderIds : fetchSingleOrder(o)
  \/ fetchMyOrders
  \/ fetchAllOrders

SpecSingle == Init /\ [][NextSingle]_vars

\* ------------------------------------------------------ properties ----
RECURSIVE SumSeq(_)
SumSeq(q) == IF q = <<>> THEN 0 ELSE Head(q) + SumSeq(Tail(q))

RECURSIVE SumSet(_)
SumSet(S) ==
  IF S = {} THEN 0
  ELSE LET x == CHOOSE y \in S : TRUE IN x.price * x.quantity + SumSet(S \ {x})

Range(q) == {q[k] : k \in 1..Len(q)}
StockError == ErrorHandler("Stock", 400)
NotFoundError == ErrorHandler("NotFound", 404)
StoreError == ErrorHandler("Store", 500)
Cart(r) == ParseItems(body[r].orderedItems).items
Arrived(r) == pc[r] # "idle"
\* the product lookup of request r has returned
LookedUp(r) ==
  /\ pc[r] \notin {"idle", "selectProducts"}
  /\ failedAt[r] # "selectProducts"
  /\ ~(nextErrs[r] # <<>> /\ nextErrs[r][1].kind = "Validation")
\* no database.query of request r was rejected by the environment
NoRejection(r) == StoreError \notin Range(nextErrs[r])
\* the quantity request r has taken off the stock of product p so far
AppliedBy(r, p) ==
  SumSeq([k \in 1..(IF cursor[r] = 0 THEN 0 ELSE cursor[r] - 1) |->
            IF Cart(r)[k].product = p THEN Cart(r)[k].quantity ELSE 0])
TheLastUnit == <<[product |-> "P1", quantity |-> 1]>>

\* C1: when every request asked for one unit of the product whose stock is 1
\* and all have ended with no query rejected, exactly one has responded with
\* success, every other one got a StockError first, and the stock is 0.
C1_ExactlyOneWinner ==
  (\A r \in Reqs : /\ pc[r] = "done"
                   /\ body[r].shipping = FilledShipping
                   /\ Cart(r) = TheLastUnit
                   /\ NoRejection(r))
  => /\ Cardinality({r \in Reqs : responded[r]}) = 1
     /\ \A r \in Reqs : ~responded[r] =>
          (nextErrs[r] # <<>> /\ nextErrs[r][1] = StockError)
     /\ stock["P1"] = 0

\* C2: the stock of every product is at least 0 in every reachable state.
C2_StockNeverNegative == \A p \in Catalog : stock[p] >= 0

\* C3: when a request has ended because one of its store writes failed, and
\* no other request has arrived, the store holds no order, order item,
\* shipping or payment row of the request and every stock is as it was.
C3_FailedWriteLeavesNothing ==
  \A r \in Reqs :
    (/\ pc[r] = "done"
     /\ failedAt[r] \in {"insertOrder", "insertItems", "insertShipping",
                         "insertPayment", "updateStock"}
     /\ \A q \in Reqs \ {r} : ~Arrived(q))
    => /\ orders[r] = NoRow
       /\ ItemsOf(r) = {}
       /\ ShippingOf(r) = {}
       /\ PaymentsOf(r) = {}
       /\ stock = InitStock

\* a line the forEach reports: its product is not among the looked-up rows, or
\* its quantity exceeds the looked-up stock
Offending(r, k) ==
  \/ Cart(r)[k].product \notin DOMAIN products[r]
  \/ Cart(r)[k].quantity > products[r][Cart(r)[k].product].stock

\* C4: a request whose cart has an offending line, at any position, reports
\* the error of its first offending line and writes nothing: no row of the
\* request exists in any table and it has taken nothing off any stock.
C4_OffendingLineWritesNothing ==
  \A r \in Reqs :
    (LookedUp(r) /\ \E k \in 1..Len(Cart(r)) : Offending(r, k))
    => /\ nextErrs[r] # <<>>
       /\ nextErrs[r][1] \in {StockError, NotFoundError}
       /\ orders[r] = NoRow
       /\ ItemsOf(r) = {}
       /\ ShippingOf(r) = {}
       /\ PaymentsOf(r) = {}
       /\ \A p \in Catalog : AppliedBy(r, p) = 0

\* the joined rows a fetch response carries
RowsOf(resp) ==
  IF resp.op = "fetchSingleOrder"
  THEN (IF resp.orders = Undefined THEN {} ELSE {resp.orders})
  ELSE IF resp.op = "fetchMyOrders" THEN resp.myOrders
  ELSE IF resp.op = "fetchAllOrders" THEN resp.orders
  ELSE {}

\* C5: no fetch returns the order of a placement that is still running, whose
\* cart is valid and whose queries all succeed, with fewer order items than
\* the placement inserts or with a null shipping_info.
C5_FetchSeesWholePlacement ==
  \A row \in RowsOf(lastResponse) :
    (/\ pc[row.id] \notin {"idle", "done"}
     /\ nextErrs[row.id] = <<>>)
    => /\ Cardinality(row.order_items) = Len(values[row.id])
       /\ row.shipping_info # NullShipping

\* no product is on two lines of the cart of request r
OneLinePerProduct(r) ==
  \A j, k \in 1..Len(Cart(r)) : Cart(r)[j].product = Cart(r)[k].product => j = k

\* C6: when every line of a placement passed the stock check, and a stock
\* UPDATE of the placement then finds the stock of its product below the line's
\* quantity (another placement took it meanwhile), the request ends with a
\* StockError and without a success response, and every stock is back where
\* it was before the request's first decrement.
C6_LateShortageFailsWhole ==
  [][\A r \in Reqs :
       (/\ pc[r] = "updateStock"
        /\ cursor'[r] = cursor[r] + 1
        /\ nextErrs[r] = <<>>
        /\ OneLinePerProduct(r)
        /\ Cart(r)[cursor[r]].product \in Catalog
        /\ stock[Cart(r)[cursor[r]].product] < Cart(r)[cursor[r]].quantity)
       => /\ pc'[r] = "done"
          /\ ~responded'[r]
          /\ StockError \in Range(nextErrs'[r])
          /\ \A p \in Catalog : stock'[p] = stock[p] + AppliedBy(r, p)]_vars

\* C7: once a placement has responded with success, and for as long as its
\* order row exists, exactly one shipping_info row and exactly one payments row
\* carry the order's id.
C7_OneShippingOnePayment ==
  \A r \in Reqs :
    (responded[r] /\ orders[r] # NoRow)
    => /\ Cardinality(ShippingOf(r)) = 1
       /\ Cardinality(PaymentsOf(r)) = 1

\* C7's case: a placement has responded with success, its order has since been
\* given another status, and the other request's order has been inserted
C7_Witness ==
  \E r \in Reqs :
    /\ responded[r]
    /\ orders[r] # NoRow
    /\ orders[r].order_status = "Shipped"
    /\ \E q \in Reqs \ {r} : pc[q] \in {"insertItems", "insertShipping",
                                        "insertPayment", "updateStock", "done"}

\* the subtotal of a cart: the sum over its lines of the looked-up unit price
\* times the quantity
CartSubtotal(r) ==
  SumSeq([k \in 1..Len(Cart(r)) |->
            products[r][Cart(r)[k].product].price * Cart(r)[k].quantity])

\* every line's product was found and its quantity is within the looked-up stock
ValidCart(r) ==
  /\ LookedUp(r)
  /\ \A k \in 1..Len(Cart(r)) : ~Offending(r, k)

\* t is x rounded to the nearest integer, a tie going up (x in ten-thousandths)
RoundsHalfUpTo(x10000, t) ==
  /\ 10000 * t - 5000 <= x10000
  /\ x10000 < 10000 * t + 5000

\* C8: the order created for a valid cart with subtotal s stores shipping_price
\* 0 if s >= 50 and 2 otherwise, and its total_price is s + 0.18 s +
\* shipping_price rounded half up.
C8_TotalPrice ==
  \A r \in Reqs :
    (orders[r] # NoRow /\ ValidCart(r))
    => LET s == CartSubtotal(r)
           ship == orders[r].shipping_price
       IN /\ ship \in {0, 2}
          /\ (ship = 0) <=> (s >= 5000)
          /\ RoundsHalfUpTo(100 * s + 18 * s + 10000 * ship,
                            orders[r].total_price)

\* C8's cases: an order created for a valid cart whose total falls exactly
\* between two integers (subtotal 25: 31.5), while another order was created
\* for a valid cart whose subtotal is exactly 50
C8_Witness ==
  \E r, q \in Reqs :
    /\ orders[r] # NoRow /\ ValidCart(r)
    /\ CartSubtotal(r) = 2500 /\ orders[r].total_price = 32
    /\ orders[q] # NoRow /\ ValidCart(q)
    /\ CartSubtotal(q) = 5000 /\ orders[q].shipping_price = 0

\* C9: when a placement that inserted an order has ended with no query
\* rejected, the price * quantity of the order_items rows of the order sum to
\* the subtotal its total_price was computed from, and every row carries the
\* looked-up price of its product.
C9_ItemsSumToSubtotal ==
  \A r \in Reqs :
    (pc[r] = "done" /\ orders[r] # NoRow /\ NoRejection(r))
    => /\ SumSet(ItemsOf(r)) = subtotal[r]
       /\ \A oi \in ItemsOf(r) : oi.price = products[r][oi.product_id].price

\* C10: a fetchSingleOrder for an id that no order row has responds 404.
C10_FetchMissingIsNotFound ==
  (lastResponse.op = "fetchSingleOrder" /\ orders[lastResponse.orderId] = NoRow)
  => lastResponse.statusCode = 404

\* the orders INSERT of request r has been executed
\* the 200 response is the only outcome of request r
Succeeded(r) == responded[r] /\ nextErrs[r] = <<>>

Inserted(r) ==
  \/ pc[r] \in {"insertItems", "insertShipping", "insertPayment", "updateStock"}
  \/ /\ pc[r] = "done"
     /\ failedAt[r] \notin {"selectProducts", "insertOrder"}
     /\ LookedUp(r)

\* C11: right after deleteOrder has succeeded on the order of a placement
\* that has succeeded, no order_items,
\* shipping_info or payments row carries the order's id; and a
\* fetchSingleOrder for an order that was inserted and has been deleted
\* responds 404.
C11_DeleteLeavesNothing ==
  /\ (/\ lastResponse.op = "deleteOrder"
      /\ lastResponse.statusCode = 200
      /\ Succeeded(lastResponse.orderId))
     => /\ ItemsOf(lastResponse.orderId) = {}
        /\ ShippingOf(lastResponse.orderId) = {}
        /\ PaymentsOf(lastResponse.orderId) = {}
  /\ (/\ lastResponse.op = "fetchSingleOrder"
      /\ Inserted(lastResponse.orderId)
      /\ Succeeded(lastResponse.orderId)
      /\ orders[lastResponse.orderId] = NoRow)
     => lastResponse.statusCode = 404

\* C12: an updateOrderStatus with a non-empty status that found the order
\* ends either with 404 or with a success response that carries the order row,
\* as it now is in the store, with the requested status.
C12_UpdateReturnsTheOrder ==
  [][(upd # NoUpdate /\ upd' = NoUpdate)
     => \/ lastResponse'.statusCode = 404
        \/ /\ lastResponse'.statusCode = 200
           /\ lastResponse'.updatedOrder # Undefined
           /\ lastResponse'.updatedOrder = orders'[upd.orderId]
           /\ lastResponse'.updatedOrder.order_status = upd.status]_vars

\* C13: a fetchSingleOrder for the order of a placement that has succeeded
\* returns one order item per line of the submitted cart, with the line's
\* product id and quantity and the looked-up price, and a shipping_info whose
\* seven fields are the submitted ones.
C13_FetchReturnsWhatWasPlaced ==
  (lastResponse.op = "fetchSingleOrder" /\ Succeeded(lastResponse.orderId))
  => LET r == lastResponse.orderId
         row == lastResponse.orders
     IN /\ row # Undefined
        /\ Cardinality(row.order_items) = Len(Cart(r))
        /\ \A k \in 1..Len(Cart(r)) :
             \E it \in row.order_items :
               /\ it.line = k
               /\ it.product_id = Cart(r)[k].product
               /\ it.quantity = Cart(r)[k].quantity
               /\ it.price = products[r][Cart(r)[k].product].price
        /\ \A f \in ShippingFields : row.shipping_info[f] = body[r].shipping[f]

\* C13's case: the fetched order was placed with a cart of two lines and with
\* a state that differs from the other shipping fields
C13_Witness ==
  /\ lastResponse.op = "fetchSingleOrder"
  /\ Succeeded(lastResponse.orderId)
  /\ lastResponse.orders # Undefined
  /\ Len(Cart(lastResponse.orderId)) = 2
  /\ body[lastResponse.orderId].shipping["state"] = "b"

\* String.prototype.trim on the values a shipping field takes here
Trim(x) == IF x = " " THEN "" ELSE x

\* the body that the claim calls invalid: a shipping field missing or empty
\* after trimming, a payload that is no list, or a list with no line
InvalidBody(b) ==
  \/ \E f \in ShippingFields : Trim(b.shipping[f]) \in {NoField, ""}
  \/ b.orderedItems.form \in {"unparseable", "object"}
  \/ /\ b.orderedItems.form \in {"array", "json", "absent"}
     /\ b.orderedItems.lines = <<>>

\* C14: a placement whose body is invalid has ended with a ValidationError
\* (400) as its only outcome, has looked up no product and has written nothing.
C14_InvalidBodyIsRejected ==
  \A r \in Reqs :
    (Arrived(r) /\ InvalidBody(body[r]))
    => /\ pc[r] = "done"
       /\ nextErrs[r] = <<ErrorHandler("Validation", 400)>>
       /\ ~responded[r]
       /\ failedAt[r] = "none"
       /\ orders[r] = NoRow
       /\ ItemsOf(r) = {} /\ ShippingOf(r) = {} /\ PaymentsOf(r) = {}
       /\ cursor[r] = 0

\* request r has run at least one UPDATE of its stock loop
Decremented(r) == cursor[r] > 1

\* C15: a placement that has an order_items, shipping_info or payments row,
\* or that has run a stock UPDATE, has its orders row.
C15_OrderRowComesFirst ==
  \A r \in Reqs :
    (\/ ItemsOf(r) # {}
     \/ ShippingOf(r) # {}
     \/ PaymentsOf(r) # {}
     \/ Decremented(r))
    => orders[r] # NoRow

\* C15's case: a placement with rows in all three dependent tables and a
\* stock UPDATE done
C15_Witness ==
  \E r \in Reqs :
    /\ ItemsOf(r) # {}
    /\ ShippingOf(r) # {}
    /\ PaymentsOf(r) # {}
    /\ Decremented(r)
    /\ stock # InitStock

\* the step is one of the three fetch operations
FetchStep ==
  lastResponse'.op \in {"fetchSingleOrder", "fetchMyOrders", "fetchAllOrders"}
\* the step is a statement of updateOrderStatus
UpdateStatusStep == upd' # upd \/ lastResponse'.op = "updateOrderStatus"

\* C16: in every step, each existing orders row stays as it is, or is removed
\* by a deleteOrder for it, or gets the status of an updateOrderStatus for it
\* and nothing else; no existing order_items, shipping_info or payments row
\* changes or goes away; a fetch changes nothing in the store; and a step of
\* updateOrderStatus changes no stock, no dependent row and no other order.
C16_ExistingRowsStay ==
  [][/\ \A o \in OrderIds :
          orders[o] # NoRow
          => \/ orders'[o] = orders[o]
             \/ /\ orders'[o] = NoRow
                /\ lastResponse'.op = "deleteOrder"
                /\ lastResponse'.orderId = o
             \/ /\ upd # NoUpdate
                /\ upd.orderId = o
                /\ UpdateStatusStep
                /\ orders'[o] = [orders[o] EXCEPT !.order_status = upd.status]
     /\ order_items \subseteq order_items'
     /\ shipping_info \subseteq shipping_info'
     /\ payments \subseteq payments'
     /\ FetchStep => UNCHANGED storeVars
     /\ UpdateStatusStep
        => /\ UNCHANGED <<stock, order_items, shipping_info, payments>>
           /\ \A o \in OrderIds :
                (upd = NoUpdate \/ o # upd.orderId) => orders'[o] = orders[o]
    ]_vars

\* C16's case: an updateOrderStatus has just changed the status of an order
\* while another order, with its rows, exists
C16_Witness ==
  /\ lastResponse.op = "updateOrderStatus"
  /\ lastResponse.statusCode = 200
  /\ lastResponse.updatedOrder # Undefined
  /\ orders[lastResponse.orderId].order_status = "Shipped"
  /\ \E o \in OrderIds :
       /\ o # lastResponse.orderId
       /\ orders[o] # NoRow
       /\ orders[o].order_status = "Processing"
       /\ ItemsOf(o) # {}

\* C17: a placement passes at most one error to next(), and never both
\* passes an error to next() and sends the success response.
C17_AtMostOneOutcome ==
  \A r \in Reqs :
    /\ Len(nextErrs[r]) <= 1
    /\ ~(responded[r] /\ nextErrs[r] # <<>>)

\* the quantity of product p in the order_items rows
RECURSIVE SumQuantity(_)
SumQuantity(S) ==
  IF S = {} THEN 0
  ELSE LET x == CHOOSE y \in S : TRUE IN x.quantity + SumQuantity(S \ {x})
SoldQuantity(p) == SumQuantity({oi \in order_items : oi.product_id = p})

\* C18: when no placement is in progress and no query was rejected, the
\* stock of every product is its initial stock less the quantities of the
\* product's order_items rows.
C18_StockConservation ==
  (\A r \in Reqs : pc[r] \in {"idle", "done"} /\ NoRejection(r))
  => \A p \in Catalog : InitStock[p] - stock[p] = SoldQuantity(p)

\* C19: no stock is above its initial value and no order_items row has a
\* quantity of zero or less.
C19_StockNeverGrows ==
  /\ \A p \in Catalog : stock[p] <= InitStock[p]
  /\ \A oi \in order_items : oi.quantity > 0

====
